---------------------------- MODULE Spec2Model ----------------------------
(***************************************************************************)
(* A model of adventurelib.py: the Direction Registry and the Room exit    *)
(* protocol (Room.add_direction, Room.__setattr__, Room.exit), and the     *)
(* command registry with its matcher (_register, when_move, start).        *)
(*                                                                         *)
(* A Python str is a sequence of one-character strings, so that lower(),   *)
(* split(), strip(), islower(), isupper() and isalpha() are computed       *)
(* character by character as Python computes them.                         *)
(***************************************************************************)
EXTENDS Integers, Sequences, FiniteSets, TLC

VARIABLES
    directions,   \* Room._directions: insertion-ordered dict, a sequence of [key, val]
    rooms,        \* the Room objects created so far; rooms[i] is the attribute dict of room i
    commands,     \* the module-level list commands: a sequence of [match, func]
    pc,           \* "setup" before start() is called, "loop" inside its while True,
                  \* "raised" once an exception has left start()
    called,       \* the handler calls made by the latest loop iteration, in order
    notified,     \* the no_command_matches calls made by the latest loop iteration
    printed,      \* the lines help() printed in the latest loop iteration
    result        \* the latest operation, its arguments and whether it raised

vars == <<directions, rooms, commands, pc, called, notified, printed, result>>

---------------------------------------------------------------------------
(* Bounds of the model. *)

MaxDirections == 6   \* add_direction is explored while the registry has fewer keys
MaxRooms == 2        \* Room(...) is explored while fewer rooms exist
MaxSlots == 4        \* attribute assignments are explored up to this many non-description attributes
MaxWhen == 2         \* @when registrations are explored while fewer entries came from _register
MaxCommands == 8     \* when_move and start(help) are explored while the list stays this short

---------------------------------------------------------------------------
(* Python str, character by character. *)

Lowers == <<"a","b","c","d","e","f","g","h","i","j","k","l","m",
            "n","o","p","q","r","s","t","u","v","w","x","y","z">>

Uppers == <<"A","B","C","D","E","F","G","H","I","J","K","L","M",
            "N","O","P","Q","R","S","T","U","V","W","X","Y","Z">>

Whitespace == {" ", "\t"}

IsLowerChar(c) == \E i \in DOMAIN Lowers : Lowers[i] = c

IsUpperChar(c) == \E i \in DOMAIN Uppers : Uppers[i] = c

LowerChar(c) ==
    IF IsUpperChar(c) THEN Lowers[CHOOSE i \in DOMAIN Uppers : Uppers[i] = c] ELSE c

UpperChar(c) ==
    IF IsLowerChar(c) THEN Uppers[CHOOSE i \in DOMAIN Lowers : Lowers[i] = c] ELSE c

\* str.lower()
StrLower(s) == [i \in DOMAIN s |-> LowerChar(s[i])]

\* str.upper()
StrUpper(s) == [i \in DOMAIN s |-> UpperChar(s[i])]

\* str.islower(): no uppercase character and at least one lowercase character
StrIsLower(s) ==
    /\ \A i \in DOMAIN s : ~IsUpperChar(s[i])
    /\ \E i \in DOMAIN s : IsLowerChar(s[i])

\* str.isupper(): no lowercase character and at least one uppercase character
StrIsUpper(s) ==
    /\ \A i \in DOMAIN s : ~IsLowerChar(s[i])
    /\ \E i \in DOMAIN s : IsUpperChar(s[i])

\* str.isalpha(): non-empty and every character a letter
StrIsAlpha(s) ==
    /\ Len(s) > 0
    /\ \A i \in DOMAIN s : IsLowerChar(s[i]) \/ IsUpperChar(s[i])

RECURSIVE LStrip(_)
LStrip(s) ==
    IF s # <<>> /\ Head(s) \in Whitespace THEN LStrip(Tail(s)) ELSE s

RECURSIVE RStrip(_)
RStrip(s) ==
    IF s # <<>> /\ s[Len(s)] \in Whitespace THEN RStrip(SubSeq(s, 1, Len(s) - 1)) ELSE s

\* str.strip()
Strip(s) == RStrip(LStrip(s))

\* str.split() with no separator: the maximal runs of non-whitespace characters.
\* SplitFrom scans s left to right; cur is the word being read, acc the words read.
RECURSIVE SplitFrom(_, _, _)
SplitFrom(s, cur, acc) ==
    IF s = <<>>
    THEN IF cur = <<>> THEN acc ELSE Append(acc, cur)
    ELSE IF Head(s) \in Whitespace
         THEN SplitFrom(Tail(s), <<>>, IF cur = <<>> THEN acc ELSE Append(acc, cur))
         ELSE SplitFrom(Tail(s), Append(cur, Head(s)), acc)

Split(s) == SplitFrom(s, <<>>, <<>>)

---------------------------------------------------------------------------
(* Python dict with insertion order: a sequence of [key, val] records. *)

\* The elements of a sequence, as a set.
Range(q) == {q[i] : i \in DOMAIN q}

DictKeys(d) == {d[i].key : i \in DOMAIN d}

DictHas(d, k) == \E i \in DOMAIN d : d[i].key = k

DictGet(d, k) == d[CHOOSE i \in DOMAIN d : d[i].key = k].val

\* d[k] = v: an existing key keeps its position, a new key goes last
DictSet(d, k, v) ==
    IF DictHas(d, k)
    THEN [i \in DOMAIN d |-> IF d[i].key = k THEN [key |-> k, val |-> v] ELSE d[i]]
    ELSE Append(d, [key |-> k, val |-> v])

---------------------------------------------------------------------------
(* The words the model uses. *)

north == <<"n","o","r","t","h">>
south == <<"s","o","u","t","h">>
east == <<"e","a","s","t">>
west == <<"w","e","s","t">>
up == <<"u","p">>
dn == <<"d","n">>
description == <<"d","e","s","c","r","i","p","t","i","o","n">>

\* The names add_direction is called with: new and already registered names,
\* a capitalised one, one with a digit, one with a space, and the empty string.
DirectionArgs ==
    {up, dn, north, <<"U","p">>, <<"u","1">>, <<"u"," ","p">>, <<>>}

\* The reverse names add_direction(up, ...) is called with while rooms are
\* being linked: up becomes its own reverse, or the reverse of dn.
RoomReverseArgs == {up, dn}

\* The texts Room(...) is constructed with.
Descriptions == {<<" ","h","a","l","l"," ">>}

---------------------------------------------------------------------------
(* Values an attribute of a Room holds. *)

RoomRef(i) == [kind |-> "Room", id |-> i, text |-> <<>>]

None == [kind |-> "None", id |-> 0, text |-> <<>>]

Str(s) == [kind |-> "str", id |-> 0, text |-> s]

\* isinstance(value, Room)
IsRoom(v) == v.kind = "Room"

\* object.__setattr__(obj, name, value) on the attribute dict of one object
ObjectSetattr(attrs, name, value) ==
    [n \in (DOMAIN attrs) \cup {name} |-> IF n = name THEN value ELSE attrs[n]]

\* getattr(obj, name, None)
Getattr(attrs, name) == IF name \in DOMAIN attrs THEN attrs[name] ELSE None

\* Room.exit(self, direction): KeyError for a name that is no direction,
\* otherwise the attribute of that name, None when there is none.
exit(self, direction) ==
    IF ~DictHas(directions, direction)
    THEN [raised |-> "KeyError", value |-> None]
    ELSE [raised |-> "", value |-> Getattr(rooms[self], direction)]

\* The characters the model uses, in the order of their code points.
CodePoints == <<"\t", " ", "1", "2", "?">> \o Uppers \o Lowers

\* The rank of a character among CodePoints: ord(c), up to the gaps.
Ord(c) == CHOOSE i \in DOMAIN CodePoints : CodePoints[i] = c

\* a < b for two str: the first differing character decides, a proper prefix is less
RECURSIVE StrLess(_, _)
StrLess(a, b) ==
    IF b = <<>> THEN FALSE
    ELSE IF a = <<>> THEN TRUE
    ELSE IF Head(a) = Head(b) THEN StrLess(Tail(a), Tail(b))
    ELSE Ord(Head(a)) < Ord(Head(b))

\* x put into the ascending list q, after the elements that are not greater
RECURSIVE InsertStr(_, _)
InsertStr(q, x) ==
    IF q = <<>> THEN <<x>>
    ELSE IF StrLess(x, Head(q)) THEN <<x>> \o q
    ELSE <<Head(q)>> \o InsertStr(Tail(q), x)

\* sorted() leaving the list in the order it was given.
Unsorted(q) == q

\* sorted(q) for a list of str: stable, ascending
RECURSIVE SortedStr(_)
SortedStr(q) ==
    IF q = <<>> THEN <<>> ELSE InsertStr(SortedStr(SubSeq(q, 1, Len(q) - 1)), q[Len(q)])

\* hasattr(obj, name).  No name the model uses is an attribute of the class
\* Room, so the instance dict decides.
Hasattr(attrs, name) == name \in DOMAIN attrs

\* The generator of line 66: the keys of the registry, in its order, that
\* are attributes of the room.
ExitNames(self) ==
    LET Has(e) == Hasattr(rooms[self], e.key)
        kept == SelectSeq(directions, Has)
    IN  [i \in DOMAIN kept |-> kept[i].key]

\* Room.exits(self), lines 64 to 66
exits(self) == SortedStr(ExitNames(self))

\* The number of attributes other than description over all rooms.
RECURSIVE NumSlots(_)
NumSlots(rs) ==
    IF rs = <<>> THEN 0
    ELSE Cardinality((DOMAIN Head(rs)) \ {description}) + NumSlots(Tail(rs))

---------------------------------------------------------------------------
(* The state after the module is imported: lines 7, 33, 82 and 83. *)

Init ==
    /\ directions = DictSet(DictSet(DictSet(DictSet(<<>>, north, south), south, north),
                                    east, west), west, east)
    /\ rooms = <<>>
    /\ commands = <<>>
    /\ pc = "setup"
    /\ called = <<>>
    /\ notified = <<>>
    /\ printed = <<>>
    /\ result = [op |-> "import", raised |-> ""]

---------------------------------------------------------------------------
(* Room.add_direction(forward, reverse).  Both names are checked, forward
   first, before the registry is written. *)

\* DirectionError without the membership test of line 43.
DirectionErrorNoDuplicateTest(dir) ==
    IF ~StrIsLower(dir) THEN "InvalidCommand" ELSE ""

\* The error one pass of the loop over (forward, reverse) raises, "" for none.
DirectionError(dir) ==
    IF ~StrIsLower(dir) THEN "InvalidCommand"
    ELSE IF DictHas(directions, dir) THEN "KeyError"
    ELSE ""

\* The loop of lines 38 to 44: forward is checked first, then reverse.
AddDirectionError(forward, reverse) ==
    IF DirectionError(forward) # "" THEN DirectionError(forward)
    ELSE DirectionError(reverse)

\* RegisterPair without the write of line 46.
RegisterPairForwardOnly(d, forward, reverse) == DictSet(d, forward, reverse)

\* The two writes of lines 45 and 46, in that order.
RegisterPair(d, forward, reverse) ==
    DictSet(DictSet(d, forward, reverse), reverse, forward)

add_direction(forward, reverse) ==
    /\ Len(directions) < MaxDirections
    /\ LET err == AddDirectionError(forward, reverse) IN
       /\ directions' = IF err # "" THEN directions
                        ELSE RegisterPair(directions, forward, reverse)
       /\ result' = [op |-> "add_direction", forward |-> forward, reverse |-> reverse,
                     raised |-> err]
    /\ UNCHANGED <<rooms, commands, pc, called, notified, printed>>

---------------------------------------------------------------------------
(* Room(description): __init__ assigns the stripped text through __setattr__,
   which takes its else branch for a str. *)

NewRoom(text) ==
    /\ Len(rooms) < MaxRooms
    /\ rooms' = Append(rooms, ObjectSetattr(<<>>, description, Str(Strip(text))))
    /\ result' = [op |-> "Room", room |-> Len(rooms) + 1, raised |-> ""]
    /\ UNCHANGED <<directions, commands, pc, called, notified, printed>>

---------------------------------------------------------------------------
(* Room.__setattr__(self, name, value).  InvalidDirection is not defined in
   the module, so the raise statement of line 71 raises NameError. *)

\* SetExit without the write of line 78.
SetExitOneWay(rs, self, name, value) ==
    [rs EXCEPT ![self] = ObjectSetattr(@, name, RoomRef(value))]

\* SetExit that first deletes the back-link of the room self was linked to.
SetExitUnlinkOld(rs, self, name, value) ==
    LET reverse == DictGet(directions, name)
        old == Getattr(rs[self], name)
        cut == IF IsRoom(old)
               THEN [rs EXCEPT ![old.id] = [n \in (DOMAIN @) \ {reverse} |-> @[n]]]
               ELSE rs
        first == [cut EXCEPT ![self] = ObjectSetattr(@, name, RoomRef(value))]
    IN  [first EXCEPT ![value] = ObjectSetattr(@, reverse, RoomRef(self))]

\* The attribute dicts after the two writes of lines 77 and 78, in that order.
SetExit(rs, self, name, value) ==
    LET reverse == DictGet(directions, name)
        first == [rs EXCEPT ![self] = ObjectSetattr(@, name, RoomRef(value))]
    IN  [first EXCEPT ![value] = ObjectSetattr(@, reverse, RoomRef(self))]

\* SetattrOutcome with the write of line 77 made before the test of line 70.
SetattrWriteThenRaise(rs, self, name, value) ==
    IF IsRoom(value)
    THEN IF ~DictHas(directions, name)
         THEN [raised |-> "NameError",
               rooms |-> [rs EXCEPT ![self] = ObjectSetattr(@, name, value)]]
         ELSE [raised |-> "", rooms |-> SetExit(rs, self, name, value.id)]
    ELSE [raised |-> "", rooms |-> [rs EXCEPT ![self] = ObjectSetattr(@, name, value)]]

\* The body of __setattr__, lines 69 to 80: the error raised ("" for none)
\* and the attribute dicts of all rooms afterwards.
SetattrOutcome(rs, self, name, value) ==
    IF IsRoom(value)
    THEN IF ~DictHas(directions, name)
         THEN [raised |-> "NameError", rooms |-> rs]
         ELSE [raised |-> "", rooms |-> SetExit(rs, self, name, value.id)]
    ELSE [raised |-> "", rooms |-> [rs EXCEPT ![self] = ObjectSetattr(@, name, value)]]

setattr(self, name, value) ==
    /\ LET out == SetattrOutcome(rooms, self, name, value) IN
       /\ NumSlots(out.rooms) <= MaxSlots
       /\ rooms' = out.rooms
       /\ result' = [op |-> "setattr", self |-> self, name |-> name, value |-> value,
                     raised |-> out.raised]
    /\ UNCHANGED <<directions, commands, pc, called, notified, printed>>

\* The attribute names assigned to: a built-in direction, and a name that is
\* a direction only once add_direction has added it.
AttrNames == {north, up}

\* The values assigned: every room, and None.
AttrValues == {RoomRef(i) : i \in DOMAIN rooms} \cup {None}

---------------------------------------------------------------------------
(* Command patterns and handlers. *)

\* Placeholder(name), line 100
Placeholder(name) == [kind |-> "Placeholder", id |-> 0, text |-> name]

\* isinstance(cword, Placeholder)
IsPlaceholder(v) == v.kind = "Placeholder"

\* A function with the declared parameter names params; arg is unused.
Function(name, params) == [kind |-> "function", name |-> name, params |-> params, arg |-> <<>>]

\* partial(func, d), line 156
Partial(func, d) == [kind |-> "partial", name |-> func.name, params |-> func.params, arg |-> d]

\* The module's own help(), lines 164 to 168
help == Function("help", <<>>)

\* m[k] = v on a dict whose order is never read
MapSet(m, k, v) == [n \in (DOMAIN m) \cup {k} |-> IF n = k THEN v ELSE m[n]]

\* CompileWords whose final else appends the word as a literal instead of raising.
RECURSIVE CompileWordsMixedAsLiteral(_, _, _)
CompileWordsMixedAsLiteral(words, match, argnames) ==
    IF words = <<>> THEN [raised |-> "", match |-> match, argnames |-> argnames]
    ELSE LET w == Head(words) IN
         IF ~StrIsAlpha(w)
         THEN [raised |-> "InvalidCommand", match |-> match, argnames |-> argnames]
         ELSE IF StrIsUpper(w)
         THEN CompileWordsMixedAsLiteral(Tail(words), Append(match, Placeholder(StrLower(w))),
                                         Append(argnames, StrLower(w)))
         ELSE CompileWordsMixedAsLiteral(Tail(words), Append(match, Str(w)), argnames)

\* The loop of lines 91 to 108 over the words of a template: the error it
\* raises ("" for none) and the match and argnames lists it has built.
RECURSIVE CompileWords(_, _, _)
CompileWords(words, match, argnames) ==
    IF words = <<>> THEN [raised |-> "", match |-> match, argnames |-> argnames]
    ELSE LET w == Head(words) IN
         IF ~StrIsAlpha(w)
         THEN [raised |-> "InvalidCommand", match |-> match, argnames |-> argnames]
         ELSE IF StrIsUpper(w)
         THEN CompileWords(Tail(words), Append(match, Placeholder(StrLower(w))),
                           Append(argnames, StrLower(w)))
         ELSE IF StrIsLower(w)
         THEN CompileWords(Tail(words), Append(match, Str(w)), argnames)
         ELSE [raised |-> "InvalidCommand", match |-> match, argnames |-> argnames]

\* Registration comparing the parameter names as sets, not as lists.
RegistrationAnyOrder(command, func) ==
    LET c == CompileWords(Split(command), <<>>, <<>>) IN
    IF c.raised # "" THEN [raised |-> c.raised, entry |-> <<>>]
    ELSE IF Range(func.params) # Range(c.argnames)
    THEN [raised |-> "InvalidCommand", entry |-> <<>>]
    ELSE [raised |-> "", entry |-> <<[match |-> c.match, func |-> func]>>]

\* Registration that appends the entry although the signature differs.
RegistrationAddsOnMismatch(command, func) ==
    LET c == CompileWords(Split(command), <<>>, <<>>) IN
    IF c.raised # "" THEN [raised |-> c.raised, entry |-> <<>>]
    ELSE IF func.params # c.argnames
    THEN [raised |-> "InvalidCommand", entry |-> <<[match |-> c.match, func |-> func]>>]
    ELSE [raised |-> "", entry |-> <<[match |-> c.match, func |-> func]>>]

\* _register(command, func) up to its last line: the error raised and, when
\* there is none, the entry that line 121 appends.
Registration(command, func) ==
    LET c == CompileWords(Split(command), <<>>, <<>>) IN
    IF c.raised # "" THEN [raised |-> c.raised, entry |-> <<>>]
    ELSE IF func.params # c.argnames THEN [raised |-> "InvalidCommand", entry |-> <<>>]
    ELSE [raised |-> "", entry |-> <<[match |-> c.match, func |-> func]>>]

\* The entries of the list that _register appended.
NumWhen(cmds) == Cardinality({i \in DOMAIN cmds : cmds[i].func.kind = "function"
                                                  /\ cmds[i].func # help})

\* @when(command) applied to func: _register, lines 86 to 121
when(command, func) ==
    /\ pc = "setup"
    /\ NumWhen(commands) < MaxWhen
    /\ LET r == Registration(command, func) IN
       /\ commands' = commands \o r.entry
       /\ result' = [op |-> "when", command |-> command, func |-> func, raised |-> r.raised]
    /\ UNCHANGED <<directions, rooms, pc, called, notified, printed>>

\* The entries the loop of lines 155 and 156 appends, in the order of the dict.
MoveEntries(func) ==
    [i \in DOMAIN directions |->
        [match |-> <<Str(directions[i].key)>>, func |-> Partial(func, directions[i].key)]]

\* when_move(func), lines 142 to 161
when_move(func) ==
    /\ pc = "setup"
    /\ Len(commands) + Len(directions) + 2 <= MaxCommands
    /\ commands' = commands \o MoveEntries(func)
    /\ result' = [op |-> "when_move", func |-> func, raised |-> ""]
    /\ UNCHANGED <<directions, rooms, pc, called, notified, printed>>

\* list.append(x) in the place of list.insert(0, x)
InsertLast(l, x) == l \o <<x>>

\* list.insert(0, x)
Insert0(l, x) == <<x>> \o l

\* start(help) up to the while loop, lines 173 to 177
start(useHelp) ==
    /\ pc = "setup"
    /\ Len(commands) + 2 <= MaxCommands
    /\ commands' = IF useHelp
                   THEN Insert0(Insert0(commands, [match |-> <<Str(<<"h","e","l","p">>)>>,
                                                  func |-> help]),
                                [match |-> <<Str(<<"?">>)>>, func |-> help])
                   ELSE commands
    /\ pc' = "loop"
    /\ result' = [op |-> "start", help |-> useHelp, raised |-> ""]
    /\ UNCHANGED <<directions, rooms, called, notified, printed>>

---------------------------------------------------------------------------
(* One pass of the while loop of start(), lines 179 to 195. *)

Max(a, b) == IF a >= b THEN a ELSE b

\* zip_longest(match, ws): the shorter one is filled with None
ZipLongest(match, ws) ==
    [i \in 1..Max(Len(match), Len(ws)) |->
        [cword |-> IF i <= Len(match) THEN match[i] ELSE None,
         word |-> IF i <= Len(ws) THEN ws[i] ELSE None]]

\* MatchPairs without the test of line 184.
RECURSIVE MatchPairsNoNoneTest(_, _)
MatchPairsNoNoneTest(pairs, args) ==
    IF pairs = <<>> THEN [matched |-> TRUE, args |-> args]
    ELSE LET cword == Head(pairs).cword
             word == Head(pairs).word
         IN  IF IsPlaceholder(cword)
             THEN MatchPairsNoNoneTest(Tail(pairs), MapSet(args, cword.text, word.text))
             ELSE IF cword # word THEN [matched |-> FALSE, args |-> args]
             ELSE MatchPairsNoNoneTest(Tail(pairs), args)

\* The inner for loop, lines 183 to 189, from the pairs still to visit and the
\* args collected so far: whether it ran to its end (no break) and the args.
RECURSIVE MatchPairs(_, _)
MatchPairs(pairs, args) ==
    IF pairs = <<>> THEN [matched |-> TRUE, args |-> args]
    ELSE LET cword == Head(pairs).cword
             word == Head(pairs).word
         IN  IF word = None THEN [matched |-> FALSE, args |-> args]
             ELSE IF IsPlaceholder(cword)
             THEN MatchPairs(Tail(pairs), MapSet(args, cword.text, word.text))
             ELSE IF cword # word THEN [matched |-> FALSE, args |-> args]
             ELSE MatchPairs(Tail(pairs), args)

\* func(**args), line 191: the function called, its positional arguments and
\* its keyword arguments.  A partial passes its bound argument first.
Call(func, args) ==
    [name |-> func.name,
     pos |-> IF func.kind = "partial" THEN <<func.arg>> ELSE <<>>,
     kw |-> args]

\* RunCommands without the break of line 192: the loop goes on after a call.
RECURSIVE RunCommandsNoBreak(_, _, _)
RunCommandsNoBreak(cmds, ws, cmd) ==
    IF cmds = <<>> THEN [called |-> <<>>, notified |-> <<>>]
    ELSE LET m == MatchPairs(ZipLongest(Head(cmds).match, ws), <<>>)
             rest == RunCommandsNoBreak(Tail(cmds), ws, cmd)
         IN  IF m.matched
             THEN [called |-> <<Call(Head(cmds).func, m.args)>> \o rest.called,
                   notified |-> <<>>]
             ELSE rest

\* RunCommands with line 194 after the loop instead of in its else clause.
RECURSIVE RunCommandsNotifyAlways(_, _, _)
RunCommandsNotifyAlways(cmds, ws, cmd) ==
    IF cmds = <<>> THEN [called |-> <<>>, notified |-> <<cmd>>]
    ELSE LET m == MatchPairs(ZipLongest(Head(cmds).match, ws), <<>>) IN
         IF m.matched
         THEN [called |-> <<Call(Head(cmds).func, m.args)>>, notified |-> <<cmd>>]
         ELSE RunCommandsNotifyAlways(Tail(cmds), ws, cmd)

\* The outer for loop, lines 181 to 194, over the entries still to visit:
\* the handler calls and the no_command_matches calls it makes, in order.
RECURSIVE RunCommands(_, _, _)
RunCommands(cmds, ws, cmd) ==
    IF cmds = <<>> THEN [called |-> <<>>, notified |-> <<cmd>>]
    ELSE LET m == MatchPairs(ZipLongest(Head(cmds).match, ws), <<>>) IN
         IF m.matched
         THEN [called |-> <<Call(Head(cmds).func, m.args)>>, notified |-> <<>>]
         ELSE RunCommands(Tail(cmds), ws, cmd)

\* InputWords without lower().
InputWordsNoLower(cmd) ==
    LET words == Split(cmd) IN [i \in DOMAIN words |-> Str(words[i])]

\* tuple(cmd.lower().split()), line 180
InputWords(cmd) ==
    LET words == Split(StrLower(cmd)) IN [i \in DOMAIN words |-> Str(words[i])]

\* x < y on two match tuples of different entries of the list: "lt", "gt",
\* "eq" when no position differs, "TypeError" when the first position that
\* differs holds a Placeholder, which defines neither __eq__ nor __lt__.
RECURSIVE MatchCompare(_, _)
MatchCompare(a, b) ==
    IF a = <<>> /\ b = <<>> THEN "eq"
    ELSE IF a = <<>> THEN "lt"
    ELSE IF b = <<>> THEN "gt"
    ELSE IF IsPlaceholder(Head(a)) \/ IsPlaceholder(Head(b)) THEN "TypeError"
    ELSE IF Head(a).text = Head(b).text THEN MatchCompare(Tail(a), Tail(b))
    ELSE IF StrLess(Head(a).text, Head(b).text) THEN "lt" ELSE "gt"

\* x < y on two entries (match, func) of the list.  With equal match tuples
\* the funcs are compared: the same function is equal to itself, two
\* partial objects are never equal, and no function or partial has __lt__.
EntryCompare(x, y) ==
    LET m == MatchCompare(x.match, y.match) IN
    IF m # "eq" THEN m
    ELSE IF x.func.kind = "function" /\ x.func = y.func THEN "eq"
    ELSE "TypeError"

\* Every two entries of the list can be ordered.
Comparable(cmds) ==
    \A i, j \in DOMAIN cmds : i # j => EntryCompare(cmds[i], cmds[j]) # "TypeError"

RECURSIVE InsertEntry(_, _)
InsertEntry(q, x) ==
    IF q = <<>> THEN <<x>>
    ELSE IF EntryCompare(x, Head(q)) = "lt" THEN <<x>> \o q
    ELSE <<Head(q)>> \o InsertEntry(Tail(q), x)

\* sorted(commands), line 167, when it raises nothing
RECURSIVE SortedEntries(_)
SortedEntries(q) ==
    IF q = <<>> THEN <<>>
    ELSE InsertEntry(SortedEntries(SubSeq(q, 1, Len(q) - 1)), q[Len(q)])

\* str(t) for a token of a pattern: Placeholder.__str__, lines 26 and 27
TokenStr(t) == IF IsPlaceholder(t) THEN StrUpper(t.text) ELSE t.text

\* ' '.join(str(t) for t in match), line 168
RECURSIVE Join(_)
Join(match) ==
    IF match = <<>> THEN <<>>
    ELSE IF Len(match) = 1 THEN TokenStr(match[1])
    ELSE TokenStr(match[1]) \o <<" ">> \o Join(Tail(match))

\* The line help() prints first, line 166.
HelpHeader ==
    <<"H","e","r","e"," ","i","s"," ","a"," ","l","i","s","t"," ","o","f"," ","t","h","e"," ",
      "c","o","m","m","a","n","d","s"," ","y","o","u"," ","c","a","n"," ","g","i","v","e",":">>

\* help(), lines 164 to 168: the error it raises and the lines it prints.
\* sorted() raises TypeError exactly when two entries cannot be ordered.
HelpOutcome(cmds) ==
    IF Comparable(cmds)
    THEN LET q == SortedEntries(cmds) IN
         [raised |-> "", printed |-> <<HelpHeader>> \o [i \in DOMAIN q |-> Join(q[i].match)]]
    ELSE [raised |-> "TypeError", printed |-> <<HelpHeader>>]

\* One line of input read and dispatched.  The handlers of the author do
\* nothing; help() runs as written, and an error it raises leaves start().
loop(cmd) ==
    /\ pc = "loop"
    /\ LET r == RunCommands(commands, InputWords(cmd), cmd)
           h == IF r.called # <<>> /\ r.called[1].name = help.name
                THEN HelpOutcome(commands)
                ELSE [raised |-> "", printed |-> <<>>]
       IN  /\ called' = r.called
           /\ notified' = r.notified
           /\ printed' = h.printed
           /\ pc' = IF h.raised = "" THEN "loop" ELSE "raised"
           /\ result' = [op |-> "input", cmd |-> cmd, raised |-> h.raised]
    /\ UNCHANGED <<directions, rooms, commands>>

---------------------------------------------------------------------------
(* The inputs of the command side. *)

item == <<"i","t","e","m">>
thing == <<"t","h","i","n","g">>

\* The functions given to @when and when_move.
Handlers ==
    { Function("look", <<>>), Function("wait", <<>>),
      Function("take", <<item>>), Function("drop", <<thing>>),
      Function("give", <<item, thing>>), Function("put", <<thing, item>>) }

\* The functions given to when_move.
MoveHandlers == { Function("move", <<<<"d","i","r","e","c","t","i","o","n">>>>) }

\* The templates given to @when.
Templates ==
    { <<"g","o"," ","n","o","r","t","h">>,                          \* "go north"
      <<"g","o"," ","I","T","E","M">>,                              \* "go ITEM"
      <<" ","T","H","I","N","G","\t","t","o"," "," ","I","T","E","M">>, \* " THING\tto  ITEM"
      <<"n","o","r","t","h">>,                                      \* "north"
      <<>>,                                                         \* ""
      <<"G","o"," ","I","T","E","M">>,                              \* "Go ITEM"
      <<"g","o","2"," ","I","T","E","M">> }                         \* "go2 ITEM"

\* The lines typed at the prompt.
Inputs ==
    { <<"g","o"," ","n","o","r","t","h">>,                          \* "go north"
      <<"G","O"," ","N","o","r","t","h">>,                          \* "GO North"
      <<"g","o">>,                                                  \* "go"
      <<" ","g","o","\t","t","o"," ","n","o","r","t","h"," ">>,     \* " go\tto north "
      <<"N","o","r","t","h">>,                                      \* "North"
      <<"h","e","l","p">>,                                          \* "help"
      <<"?">>,                                                      \* "?"
      <<" ">> }                                                     \* " "

\* The forward names of a game that adds its own directions and moves; the
\* reverse name is dn.
MoveDirectionArgs == {up, <<"u"," ","p">>}

\* The templates of that game: a direction word, and the word help.
MoveTemplates == { north, <<"h","e","l","p">> }

\* The lines typed in that game.
MoveInputs ==
    { <<"N","o","r","t","h">>,                                      \* "North"
      <<"s","o","u","t","h">>,                                      \* "south"
      up,                                                           \* "up"
      <<"u"," ","p">>,                                              \* "u p"
      <<"H","e","l","p">>,                                          \* "Help"
      <<"?">> }                                                     \* "?"

---------------------------------------------------------------------------
(* The specifications. *)

\* Direction Registry alone: add_direction with good and bad names.
NextDirection ==
    \E f \in DirectionArgs, r \in DirectionArgs : add_direction(f, r)

SpecDirection == Init /\ [][NextDirection]_vars

\* Rooms and directions: setup code and handlers call these in any order.
NextRoom ==
    \/ \E r \in RoomReverseArgs : add_direction(up, r)
    \/ \E t \in Descriptions : NewRoom(t)
    \/ \E self \in DOMAIN rooms, name \in AttrNames, value \in AttrValues :
          setattr(self, name, value)

SpecRoom == Init /\ [][NextRoom]_vars

\* Rooms linked by exit assignments only: every value assigned is a Room.
NextExit ==
    \/ \E r \in RoomReverseArgs : add_direction(up, r)
    \/ \E t \in Descriptions : NewRoom(t)
    \/ \E self \in DOMAIN rooms, name \in AttrNames, value \in DOMAIN rooms :
          setattr(self, name, RoomRef(value))

SpecExit == Init /\ [][NextExit]_vars

\* Commands: registration during setup, then start() and its loop.
NextCommand ==
    \/ \E c \in Templates, f \in Handlers : when(c, f)
    \/ \E f \in MoveHandlers : when_move(f)
    \/ \E h \in BOOLEAN : start(h)
    \/ \E cmd \in Inputs : loop(cmd)

SpecCommand == Init /\ [][NextCommand]_vars

\* A game with directions of its own, movement commands and the help entries.
NextMove ==
    \/ \E f \in MoveDirectionArgs : add_direction(f, dn)
    \/ \E c \in MoveTemplates : when(c, Function("look", <<>>))
    \/ \E f \in MoveHandlers : when_move(f)
    \/ \E h \in BOOLEAN : start(h)
    \/ \E cmd \in MoveInputs : loop(cmd)

SpecMove == Init /\ [][NextMove]_vars

\* The whole program.
Next ==
    \/ \E f \in DirectionArgs, r \in DirectionArgs : add_direction(f, r)
    \/ \E t \in Descriptions : NewRoom(t)
    \/ \E self \in DOMAIN rooms, name \in AttrNames, value \in AttrValues :
          setattr(self, name, value)
    \/ \E c \in Templates, f \in Handlers : when(c, f)
    \/ \E f \in MoveHandlers : when_move(f)
    \/ \E h \in BOOLEAN : start(h)
    \/ \E cmd \in Inputs : loop(cmd)

Spec == Init /\ [][Next]_vars

---------------------------------------------------------------------------
(* Properties of the Room exit protocol. *)

\* reverse of a registered direction
Reverse(d) == DictGet(directions, d)

\* C1: for all rooms A, B and every registered direction D, if A's exit in
\* direction D is B then B's exit in the reverse of D is A, in every state
\* reached by exit assignments alone.
C1_LinkInvariant ==
    \A a \in DOMAIN rooms, b \in DOMAIN rooms : \A d \in DictKeys(directions) :
        exit(a, d).value = RoomRef(b) => exit(b, Reverse(d)).value = RoomRef(a)

\* The latest operation was a successful assignment of a Room to an attribute.
SetExitDone ==
    /\ result.op = "setattr"
    /\ IsRoom(result.value)
    /\ result.raised = ""

\* C2: right after a successful set_exit(A, D, B), exit_of(A, D) returns B and
\* exit_of(B, reverse(D)) returns A, neither raising, whatever the slots held.
C2_SetExitRoundTrip ==
    SetExitDone =>
        /\ exit(result.self, result.name) = [raised |-> "", value |-> result.value]
        /\ exit(result.value.id, Reverse(result.name)) =
               [raised |-> "", value |-> RoomRef(result.self)]

\* A successful set_exit(A, D, B) over a slot that was linked before: another
\* room C still names A as its exit in reverse(D).
C2_Witness ==
    /\ SetExitDone
    /\ \E c \in DOMAIN rooms :
          /\ c # result.value.id
          /\ exit(c, Reverse(result.name)).value = RoomRef(result.self)

\* C13: exits_of(room) holds only keys of the Direction Registry, in strictly
\* ascending order (so no name twice), and two rooms with the same set of
\* exits return the same sequence.
C13_ExitsSortedKeys ==
    \A r \in DOMAIN rooms :
        LET e == exits(r) IN
        /\ \A i \in DOMAIN e : DictHas(directions, e[i])
        /\ \A i, j \in DOMAIN e : i < j => StrLess(e[i], e[j])
        /\ \A q \in DOMAIN rooms :
              Range(ExitNames(q)) = Range(ExitNames(r)) => exits(q) = e

\* A room whose exits come in another order from the registry than sorted,
\* and a second room with the same exits.
C13_Witness ==
    \E r, q \in DOMAIN rooms :
        /\ r # q
        /\ Len(exits(r)) >= 1
        /\ exits(q) = exits(r)
        /\ \E x \in DOMAIN rooms : Len(exits(x)) >= 2 /\ exits(x) # ExitNames(x)

\* C15: for every room and every registered direction d, d is listed by
\* exits_of(room) if and only if exit_of(room, d) returns a Room.
C15_ExitsAreRooms ==
    \A r \in DOMAIN rooms : \A d \in DictKeys(directions) :
        (d \in Range(exits(r))) <=> IsRoom(exit(r, d).value)

\* C18: a successful set_exit(A, D, B) leaves A's slot for D holding B and
\* B's slot for reverse(D) holding A, and changes nothing else: no other
\* attribute of any room appears, disappears or changes its value, and the
\* Direction Registry and the Command Registry stay as they were.
C18_SetExitFrame ==
    [][ (/\ result'.op = "setattr"
         /\ IsRoom(result'.value)
         /\ result'.raised = "")
        => LET A == result'.self
               D == result'.name
               B == result'.value.id
               R == Reverse(D)
           IN  /\ DOMAIN rooms' = DOMAIN rooms
               /\ Getattr(rooms'[A], D) = RoomRef(B)
               /\ Getattr(rooms'[B], R) = RoomRef(A)
               /\ \A r \in DOMAIN rooms :
                     \A n \in (DOMAIN rooms[r]) \cup (DOMAIN rooms'[r]) :
                        <<r, n>> \notin {<<A, D>>, <<B, R>>}
                           => /\ Hasattr(rooms'[r], n) <=> Hasattr(rooms[r], n)
                              /\ Getattr(rooms'[r], n) = Getattr(rooms[r], n)
               /\ directions' = directions
               /\ commands' = commands
      ]_vars

\* A successful re-assignment: a room other than B still holds the back-link
\* to A that an earlier assignment gave it, and A holds other attributes too.
C18_Witness ==
    /\ SetExitDone
    /\ \E c \in DOMAIN rooms :
          /\ c # result.value.id
          /\ c # result.self
          /\ Getattr(rooms[c], Reverse(result.name)) = RoomRef(result.self)
    /\ Cardinality(DOMAIN rooms[result.self]) >= 3

\* The names exit_of is asked for: the names assigned to, and description.
ProbeNames == AttrNames \cup {description}

\* C12: assigning a Room to a name that is no key of the Direction Registry
\* raises and leaves every attribute of every room as it was; and exit_of
\* with such a name raises instead of returning a value.
C12_UnknownDirectionRejected ==
    /\ [](\A r \in DOMAIN rooms, n \in ProbeNames :
             ~DictHas(directions, n) => exit(r, n).raised # "")
    /\ [][ (/\ result'.op = "setattr"
            /\ IsRoom(result'.value)
            /\ ~DictHas(directions, result'.name))
              => (result'.raised # "" /\ rooms' = rooms) ]_vars

\* A refused assignment in a game whose rooms already have exits.
C12_Witness ==
    /\ result.op = "setattr"
    /\ IsRoom(result.value)
    /\ result.raised = "NameError"
    /\ NumSlots(rooms) > 0
    /\ exit(result.self, result.name).raised = "KeyError"

---------------------------------------------------------------------------
(* Properties of the Direction Registry. *)

\* C9: add_direction(forward, reverse) raises whenever forward or reverse is
\* already a key, and then leaves the registry as it was; and no step changes
\* the reverse or the position of a key that is already registered.
C9_DuplicateRejected ==
    [][ /\ (/\ result'.op = "add_direction"
            /\ \/ DictHas(directions, result'.forward)
               \/ DictHas(directions, result'.reverse))
           => (result'.raised # "" /\ directions' = directions)
        /\ \A i \in DOMAIN directions :
              i \in DOMAIN directions' /\ directions'[i] = directions[i]
      ]_vars

\* A call that failed on its second name only: forward is new, reverse is
\* registered, and forward has not been inserted.
C9_Witness ==
    /\ result.op = "add_direction"
    /\ result.raised = "KeyError"
    /\ StrIsLower(result.forward)
    /\ ~DictHas(directions, result.forward)
    /\ DictHas(directions, result.reverse)

\* C11: the Direction Registry is symmetric in every state: the reverse of
\* every key is a key, and the reverse of the reverse of a key is the key.
C11_RegistrySymmetric ==
    \A d \in DictKeys(directions) :
        /\ DictHas(directions, Reverse(d))
        /\ Reverse(Reverse(d)) = d

\* A pair of two different names has been added to the built-in ones.
C11_Witness ==
    /\ result.op = "add_direction"
    /\ result.raised = ""
    /\ result.forward # result.reverse
    /\ Reverse(result.forward) = result.reverse
    /\ Len(directions) = 6

\* entirely lowercase alphabetic: non-empty, every character a lowercase letter
LowercaseAlphabetic(s) == Len(s) > 0 /\ \A i \in DOMAIN s : IsLowerChar(s[i])

\* C10: add_direction raises and leaves the registry unchanged whenever either
\* name is not entirely lowercase alphabetic, so every key of the registry is
\* a lowercase alphabetic word.
C10_KeysLowercaseAlphabetic ==
    /\ (/\ result.op = "add_direction"
        /\ \/ ~LowercaseAlphabetic(result.forward)
           \/ ~LowercaseAlphabetic(result.reverse))
       => result.raised # ""
    /\ \A k \in DictKeys(directions) : LowercaseAlphabetic(k)

---------------------------------------------------------------------------
(* Properties of the matcher. *)

\* The latest operation was one pass of the loop of start().
InputDone == result.op = "input"

\* The typed line split into words, each word lowercased.
LoweredWords(cmd) ==
    LET raw == Split(cmd) IN [k \in DOMAIN raw |-> Str(StrLower(raw[k]))]

\* Pattern P matches the words W: same length, every literal equal to the
\* word at its position, a placeholder matching anything.
Matches(P, W) ==
    /\ Len(P) = Len(W)
    /\ \A i \in DOMAIN P : IsPlaceholder(P[i]) \/ P[i] = W[i]

\* The indices of the registry entries whose pattern matches W.
Matching(W) == {i \in DOMAIN commands : Matches(commands[i].match, W)}

\* The least element of a non-empty set of indices.
First(S) == CHOOSE i \in S : \A j \in S : i <= j

\* The positional arguments a registry entry's handler is bound to.
BoundArgs(func) == IF func.kind = "partial" THEN <<func.arg>> ELSE <<>>

\* C3: one pass of the loop calls exactly the handler of the lowest-index
\* entry whose pattern matches the input, once, and no handler of a later
\* entry; when no entry matches it calls no handler.
C3_FirstMatchOnly ==
    InputDone =>
        LET M == Matching(LoweredWords(result.cmd)) IN
        IF M = {} THEN called = <<>>
        ELSE /\ Len(called) = 1
             /\ called[1].name = commands[First(M)].func.name
             /\ called[1].pos = BoundArgs(commands[First(M)].func)

\* An input that two entries with different handlers match.
C3_Witness ==
    /\ InputDone
    /\ Len(called) = 1
    /\ \E i, j \in Matching(LoweredWords(result.cmd)) :
          i < j /\ commands[i].func.name # commands[j].func.name

\* C4: a pattern whose length differs from the number of input words does not
\* match, for a shorter input and for extra trailing words alike; and when
\* every registered pattern differs in length, no handler is called and the
\* no-match notifier is.
C4_LengthMustAgree ==
    InputDone =>
        LET ws == InputWords(result.cmd) IN
        /\ \A i \in DOMAIN commands :
              Len(commands[i].match) # Len(ws)
                 => ~MatchPairs(ZipLongest(commands[i].match, ws), <<>>).matched
        /\ (\A i \in DOMAIN commands : Len(commands[i].match) # Len(ws))
              => (called = <<>> /\ notified = <<result.cmd>>)

\* P agrees with W on the positions both have.
PrefixAgrees(P, W) ==
    \A i \in DOMAIN P \cap DOMAIN W : IsPlaceholder(P[i]) \/ P[i] = W[i]

\* No pattern has the input's length; one is shorter, one with a placeholder
\* is longer, and both agree with the input as far as they go.
C4_Witness ==
    /\ InputDone
    /\ notified = <<result.cmd>>
    /\ LET ws == InputWords(result.cmd) IN
       /\ \A i \in DOMAIN commands : Len(commands[i].match) # Len(ws)
       /\ \E i, j \in DOMAIN commands :
             /\ Len(commands[i].match) < Len(ws)
             /\ Len(commands[j].match) > Len(ws)
             /\ PrefixAgrees(commands[i].match, ws)
             /\ PrefixAgrees(commands[j].match, ws)
             /\ \E k \in DOMAIN commands[j].match : IsPlaceholder(commands[j].match[k])

\* C5: the handler of the selected pattern is called with keyword arguments
\* whose names are exactly the pattern's placeholder names, each bound to the
\* lowercased input word at the placeholder's position; and every input that
\* differs from this one in letter case only causes the same call.
C5_BindingsLowercased ==
    (InputDone /\ called # <<>>) =>
        LET raw == Split(result.cmd)
            P == commands[First(Matching(LoweredWords(result.cmd)))].match
        IN
        /\ DOMAIN called[1].kw = {P[k].text : k \in {i \in DOMAIN P : IsPlaceholder(P[i])}}
        /\ \A k \in DOMAIN P :
              IsPlaceholder(P[k]) => called[1].kw[P[k].text] = StrLower(raw[k])
        /\ \A other \in Inputs :
              StrLower(other) = StrLower(result.cmd)
                 => RunCommands(commands, InputWords(other), other).called = called

\* An input with capitals bound to a placeholder, after an earlier entry had
\* bound a word and then failed.
C5_Witness ==
    /\ InputDone
    /\ called # <<>>
    /\ called[1].kw # <<>>
    /\ result.cmd # StrLower(result.cmd)
    /\ LET ws == InputWords(result.cmd) IN
       \E j \in 1..(First(Matching(ws)) - 1) :
          MatchPairs(ZipLongest(commands[j].match, ws), <<>>).args # <<>>

\* C6: when no entry matches, no handler is called, the notifier is called
\* once with the line as typed, nothing is raised and the loop goes on; when
\* an entry matches, the notifier is not called.
C6_NoMatchNotified ==
    InputDone =>
        IF Matching(LoweredWords(result.cmd)) = {}
        THEN /\ called = <<>>
             /\ notified = <<result.cmd>>
             /\ result.raised = ""
             /\ pc = "loop"
        ELSE notified = <<>>

\* A line with capitals that no entry of a non-empty registry matches.
C6_Witness ==
    /\ InputDone
    /\ commands # <<>>
    /\ Matching(LoweredWords(result.cmd)) = {}
    /\ result.cmd # StrLower(result.cmd)
    /\ notified = <<result.cmd>>

---------------------------------------------------------------------------
(* Properties of the help listing. *)

\* The number of positions of q that hold x.
Count(q, x) == Cardinality({i \in DOMAIN q : q[i] = x})

\* C19: when a line dispatches to help(), the listing completes without
\* error and prints, after its heading, the rendering of every entry of the
\* Command Registry (a Placeholder as its uppercase name, a Literal as
\* itself, joined by spaces), no line more often than entries render to it,
\* in sorted order.
C19_HelpListsSorted ==
    (InputDone /\ called # <<>> /\ called[1].name = help.name) =>
        LET lines == Tail(printed) IN
        /\ result.raised = ""
        /\ pc = "loop"
        /\ Len(lines) = Len(commands)
        /\ \A i \in DOMAIN commands :
              Count(lines, Join(commands[i].match))
                 = Cardinality({j \in DOMAIN commands :
                                  Join(commands[j].match) = Join(commands[i].match)})
        /\ \A i, j \in DOMAIN lines : i < j => ~StrLess(lines[j], lines[i])

---------------------------------------------------------------------------
(* Properties of registration. *)

AllUpper(w) == \A i \in DOMAIN w : IsUpperChar(w[i])

AllLower(w) == \A i \in DOMAIN w : IsLowerChar(w[i])

\* A word with an uppercase and a lowercase letter.
MixedCase(w) == \E i, j \in DOMAIN w : IsUpperChar(w[i]) /\ IsLowerChar(w[j])

\* The words of a template are all letters, each all uppercase or all lowercase.
ValidWords(words) ==
    \A i \in DOMAIN words : Len(words[i]) > 0 /\ (AllUpper(words[i]) \/ AllLower(words[i]))

\* The placeholder names of a template, left to right.
PlaceholderNames(words) ==
    LET sel == SelectSeq(words, AllUpper) IN [i \in DOMAIN sel |-> StrLower(sel[i])]

\* C7: registering a template of valid words succeeds, appending one entry
\* for the handler, if and only if the list of its placeholder names equals
\* the handler's parameter list; otherwise it raises and adds no entry.
C7_SignatureChecked ==
    [][ (result'.op = "when" /\ ValidWords(Split(result'.command))) =>
           IF PlaceholderNames(Split(result'.command)) = result'.func.params
           THEN /\ result'.raised = ""
                /\ Len(commands') = Len(commands) + 1
                /\ SubSeq(commands', 1, Len(commands)) = commands
                /\ commands'[Len(commands')].func = result'.func
           ELSE /\ result'.raised # ""
                /\ commands' = commands
      ]_vars

\* A registration refused although the handler declares exactly the
\* placeholder names, in another order.
C7_Witness ==
    /\ result.op = "when"
    /\ result.raised = "InvalidCommand"
    /\ ValidWords(Split(result.command))
    /\ Range(PlaceholderNames(Split(result.command))) = Range(result.func.params)
    /\ Len(PlaceholderNames(Split(result.command))) = Len(result.func.params)

\* C8: a template word with a non-letter, or with mixed case, makes the
\* registration raise; a registered pattern has one token per template word,
\* in order: Placeholder(lowercased word) for an uppercase word, the word
\* itself for a lowercase word.
C8_WordsClassified ==
    result.op = "when" =>
        LET words == Split(result.command) IN
        /\ (\E i \in DOMAIN words : ~StrIsAlpha(words[i]) \/ MixedCase(words[i]))
              => result.raised # ""
        /\ result.raised = "" =>
              LET m == commands[Len(commands)].match IN
              /\ Len(m) = Len(words)
              /\ \A i \in DOMAIN words :
                    /\ AllUpper(words[i]) => m[i] = Placeholder(StrLower(words[i]))
                    /\ AllLower(words[i]) => m[i] = Str(words[i])
                    /\ AllUpper(words[i]) \/ AllLower(words[i])

\* A registered pattern with both kinds of token.
C8_Witness ==
    /\ result.op = "when"
    /\ result.raised = ""
    /\ LET m == commands[Len(commands)].match IN
       /\ \E i \in DOMAIN m : IsPlaceholder(m[i])
       /\ \E i \in DOMAIN m : ~IsPlaceholder(m[i])

---------------------------------------------------------------------------
(* Properties of the Command Registry. *)

\* The two entries start(help=True) adds.
QuestionEntry == [match |-> <<Str(<<"?">>)>>, func |-> help]

HelpEntry == [match |-> <<Str(<<"h","e","l","p">>)>>, func |-> help]

\* The words of the two inputs that ask for help.
HelpWords == { <<Str(<<"?">>)>>, <<Str(<<"h","e","l","p">>)>> }

\* C14: start() with help enabled leaves the registry as the '?' entry, the
\* 'help' entry, then the entries it had, in their order; and from then on
\* a line whose words are 'help' or '?' calls the help lister and no other
\* handler, whatever the author registered.
C14_HelpEntriesFirst ==
    /\ [][ (result'.op = "start" /\ result'.help)
             => commands' = <<QuestionEntry, HelpEntry>> \o commands ]_vars
    /\ []( (/\ InputDone
            /\ commands # <<>>
            /\ commands[1].func = help
            /\ LoweredWords(result.cmd) \in HelpWords)
           => called = <<Call(help, <<>>)>> )

\* 'help' typed with a capital, dispatched to the help lister although the
\* author registered the pattern 'help' with another handler, after another
\* entry.
C14_Witness ==
    /\ InputDone
    /\ result.cmd # StrLower(result.cmd)
    /\ called = <<Call(help, <<>>)>>
    /\ Len(commands) >= 4
    /\ commands[1] = QuestionEntry
    /\ commands[2] = HelpEntry
    /\ \E i \in 4..Len(commands) :
          commands[i].match = HelpEntry.match /\ commands[i].func # help

\* C16: during setup the registry only grows at its end: every step keeps
\* the entries it had, in their places; a failed registration leaves it as
\* it was, a successful one appends one entry for the handler, and
\* when_move appends one entry per direction, each a call of its handler.
C16_RegistryAppendOnly ==
    [][ (pc = "setup" /\ pc' = "setup")
        => /\ Len(commands') >= Len(commands)
           /\ SubSeq(commands', 1, Len(commands)) = commands
           /\ (result'.op = "when" /\ result'.raised # "") => commands' = commands
           /\ (result'.op = "when" /\ result'.raised = "")
                 => /\ Len(commands') = Len(commands) + 1
                    /\ commands'[Len(commands')].func = result'.func
           /\ result'.op = "when_move"
                 => /\ Len(commands') = Len(commands) + Len(directions)
                    /\ \A i \in (Len(commands) + 1)..Len(commands') :
                          /\ commands'[i].func.kind = "partial"
                          /\ commands'[i].func.name = result'.func.name
      ]_vars

\* A registration refused for its signature, after a registration and a
\* when_move had both added their entries.
C16_Witness ==
    /\ result.op = "when"
    /\ result.raised # ""
    /\ ValidWords(Split(result.command))
    /\ pc = "setup"
    /\ \E i, j \in DOMAIN commands :
          commands[i].func.kind = "function" /\ commands[j].func.kind = "partial"

\* C17: every entry when_move added is the single literal of a registered
\* direction bound to a call of the handler with that direction; typing
\* the direction calls the handler with exactly that direction unless an
\* entry before it matches the line; and a direction added after the call
\* changes no entry.
C17_MoveEntriesDispatch ==
    /\ \A i \in DOMAIN commands :
          commands[i].func.kind = "partial"
             => /\ commands[i].match = <<Str(commands[i].func.arg)>>
                /\ DictHas(directions, commands[i].func.arg)
    /\ InputDone =>
          \A i \in DOMAIN commands :
             (/\ commands[i].func.kind = "partial"
              /\ commands[i].func.arg = StrLower(result.cmd)
              /\ \A j \in 1..(i - 1) :
                    ~Matches(commands[j].match, LoweredWords(result.cmd)))
                => called = <<[name |-> commands[i].func.name,
                              pos |-> <<commands[i].func.arg>>,
                              kw |-> <<>>]>>

===========================================================================
